---- MODULE Spec2Model ----
(***************************************************************************)
(* Model of src/worker.js: a Cloudflare Worker in front of a D1 database   *)
(* with two tables, categories and projects.  One request is followed from *)
(* its arrival to the response (or the rejection) of fetch(); the database *)
(* persists from one request to the next.  The handler is cut at its await *)
(* points: request.json() and the statement's run()/all().                 *)
(***************************************************************************)
EXTENDS Integers, Sequences, FiniteSets, TLC

VARIABLES env, categories, projects, pc, request, param, body, route,
          stmts, steps, failure, dbError, result, resp, before

vars == <<env, categories, projects, pc, request, param, body, route,
          stmts, steps, failure, dbError, result, resp, before>>

-----------------------------------------------------------------------------
(* Bounds of the model. *)

\* Most rows the projects table holds (further INSERTs fail in storage).
MaxProjects == 2
\* Most rows the categories table holds.
MaxCategories == 1

-----------------------------------------------------------------------------
(* JavaScript values: undefined/null is <<>>, a defined value v is <<v>>. *)

Undefined == <<>>
Def(v) == <<v>>

\* a || b on an optional string: undefined and "" are falsy.
OrElse(a, b) == IF a # Undefined /\ a[1] # "" THEN a[1] ELSE b

\* The outcome of a call: a returned value or a thrown exception.
Returned(v) == [thrown |-> FALSE, value |-> v]
Thrown(msg) == [thrown |-> TRUE, message |-> msg]

\* Reading a property of undefined: env.ALLOWED_ORIGIN with env undefined.
TypeErrorMsg == "Cannot read properties of undefined (reading 'ALLOWED_ORIGIN')"
\* request.json() on a body that is not JSON.
SyntaxErrorMsg == "Unexpected token in JSON"
\* Reading or destructuring a property of a null body.
NullBodyMsg == "Cannot read properties of null (reading 'name')"
\* A statement the storage rejects.
StorageErrorMsg == "D1_ERROR"

-----------------------------------------------------------------------------
(* Strings the code scans are sequences of characters. *)

ApiPrefix == <<"/", "a", "p", "i", "/">>
CategoriesPath == <<"/", "a", "p", "i", "/", "c", "a", "t", "e", "g", "o", "r", "i", "e", "s">>
ProjectsPath == <<"/", "a", "p", "i", "/", "p", "r", "o", "j", "e", "c", "t", "s">>
ProjectsWord == <<"p", "r", "o", "j", "e", "c", "t", "s">>
CategoriesWord == <<"c", "a", "t", "e", "g", "o", "r", "i", "e", "s">>
WidgetsPath == <<"/", "a", "p", "i", "/", "w", "i", "d", "g", "e", "t", "s">>
HomePath == <<"/", "h", "o", "m", "e">>
Slash == <<"/">>

Digits == {"0", "1", "2", "3", "4", "5", "6", "7", "8", "9"}

\* String.prototype.startsWith
StartsWith(s, prefix) ==
    /\ Len(s) >= Len(prefix)
    /\ SubSeq(s, 1, Len(prefix)) = prefix

\* \d+ : one or more decimal digits
IsDigits(s) == Len(s) >= 1 /\ \A i \in 1..Len(s) : s[i] \in Digits

\* The longest prefix of s made of digits.
RECURSIVE LeadingDigits(_)
LeadingDigits(s) ==
    IF s = <<>> \/ s[1] \notin Digits THEN <<>>
    ELSE <<s[1]>> \o LeadingDigits(Tail(s))

\* IdMatch for the pattern without its closing $: text may follow the id.
IdMatchNoAnchor(pathname) ==
    LET Try(word) ==
            LET pre == ApiPrefix \o word \o Slash
                rest == SubSeq(pathname, Len(pre) + 1, Len(pathname))
            IN  IF StartsWith(pathname, pre) /\ LeadingDigits(rest) # <<>>
                THEN Def([resourceType |-> word, id |-> LeadingDigits(rest)])
                ELSE Undefined
    IN  IF Try(ProjectsWord) # Undefined THEN Try(ProjectsWord)
        ELSE Try(CategoriesWord)

\* pathname.match(/^\/api\/(projects|categories)\/(\d+)$/): the two groups,
\* or undefined when the pattern does not match.
IdMatch(pathname) ==
    LET Try(word) ==
            LET pre == ApiPrefix \o word \o Slash
            IN  IF StartsWith(pathname, pre)
                   /\ IsDigits(SubSeq(pathname, Len(pre) + 1, Len(pathname)))
                THEN Def([resourceType |-> word,
                          id |-> SubSeq(pathname, Len(pre) + 1, Len(pathname))])
                ELSE Undefined
    IN  IF Try(ProjectsWord) # Undefined THEN Try(ProjectsWord)
        ELSE Try(CategoriesWord)

DigitValue(c) ==
    CASE c = "0" -> 0 [] c = "1" -> 1 [] c = "2" -> 2 [] c = "3" -> 3
      [] c = "4" -> 4 [] c = "5" -> 5 [] c = "6" -> 6 [] c = "7" -> 7
      [] c = "8" -> 8 [] c = "9" -> 9

\* The number a text of digits stands for, as the storage reads the bound id
\* when it compares it with the integer column s_no.
RECURSIVE ToInt(_)
ToInt(s) ==
    IF s = <<>> THEN 0
    ELSE 10 * ToInt(SubSeq(s, 1, Len(s) - 1)) + DigitValue(s[Len(s)])

-----------------------------------------------------------------------------
(* Response builders. *)

AllowOrigin == "Access-Control-Allow-Origin"
AllowMethods == "Access-Control-Allow-Methods"
AllowHeaders == "Access-Control-Allow-Headers"
ContentType == "Content-Type"

\* JSON.stringify(data): the text is represented by the value it encodes.
JSONstringify(data) == [json |-> data]

\* new Response(body, {status, headers})
NewResponse(b, status, headers) ==
    [status |-> status, body |-> b, headers |-> headers]

\* handleOptions without the Allow-Methods and Allow-Headers headers.
handleOptionsOriginOnly(e) ==
    Returned(NewResponse(Undefined, 200,
        (AllowOrigin :> OrElse(e[1].ALLOWED_ORIGIN, "*"))))

\* handleOptions(request, env); the status defaults to 200.
handleOptions(e) ==
    Returned(NewResponse(Undefined, 200,
        (AllowOrigin :> OrElse(e[1].ALLOWED_ORIGIN, "*"))
        @@ (AllowMethods :> "GET, POST, PUT, DELETE, OPTIONS")
        @@ (AllowHeaders :> "Content-Type, Authorization")))

\* jsonResponse(data, status, env); e is the env argument as the caller
\* passed it, undefined when the caller passed none.
jsonResponse(data, status, e) ==
    IF e = Undefined THEN Thrown(TypeErrorMsg)
    ELSE Returned(NewResponse(Def(JSONstringify(data)), status,
            (ContentType :> "application/json")
            @@ (AllowOrigin :> OrElse(e[1].ALLOWED_ORIGIN, "*"))))

\* errorResponse(message, status, env)
errorResponse(message, status, e) ==
    IF e = Undefined THEN Thrown(TypeErrorMsg)
    ELSE Returned(NewResponse(Def(JSONstringify([error |-> message])), status,
            (ContentType :> "application/json")
            @@ (AllowOrigin :> OrElse(e[1].ALLOWED_ORIGIN, "*"))))

\* new Response(null, { status: 204 })
NoContentResponse == Returned(NewResponse(Undefined, 204, <<>>))

-----------------------------------------------------------------------------
(* The auth gate. *)

WriteMethods == {"POST", "PUT", "DELETE"}

\* `Bearer ${env.SECRET_KEY}`
BearerOf(e) == "Bearer " \o e.SECRET_KEY

\* AuthFails that only asks for the header to be present.
AuthFailsWhenAbsent(authHeader, e) == authHeader = Undefined

\* !authHeader || authHeader !== `Bearer ${env.SECRET_KEY}`
AuthFails(authHeader, e) ==
    \/ authHeader = Undefined
    \/ authHeader[1] = ""
    \/ authHeader[1] # BearerOf(e)

-----------------------------------------------------------------------------
(* The router of handleApiRequest: the first branch that takes the request. *)

Dispatch(method, pathname) ==
    IF method = "GET" /\ pathname = CategoriesPath THEN "getCategories"
    ELSE IF method = "POST" /\ pathname = CategoriesPath THEN "postCategories"
    ELSE IF method = "GET" /\ pathname = ProjectsPath THEN "getProjects"
    ELSE IF method = "POST" /\ pathname = ProjectsPath THEN "postProjects"
    ELSE IF IdMatch(pathname) # Undefined /\ method = "PUT"
         THEN IF IdMatch(pathname)[1].resourceType = ProjectsWord
              THEN "putProjects" ELSE "putCategories"
    ELSE IF IdMatch(pathname) # Undefined /\ method = "DELETE" THEN "delete"
    ELSE "notFound"

\* The routes that await request.json() before their statement.
BodyRoutes == {"postCategories", "postProjects", "putProjects", "putCategories"}

-----------------------------------------------------------------------------
(* The storage collaborator: the tables and the statements the code runs.  *)
(* A column value is <<>> for NULL and <<v>> otherwise; s_no is the        *)
(* integer key the storage assigns.                                        *)

Null == <<>>

\* The columns of projects that a request body supplies.
BodyFields == {"name", "long_description", "images", "github_link",
               "technologies", "category_name", "short_description",
               "circuit_diagram_link", "video_link", "order_number",
               "visibility"}

\* The key the storage gives the next inserted row.
NextSno(table) ==
    IF table = {} THEN 1
    ELSE (CHOOSE m \in {r.s_no : r \in table} :
             \A n \in {r.s_no : r \in table} : n <= m) + 1

\* WHERE s_no = ? with the id bound as the text the pattern captured.
SnoEquals(r, id) == r.s_no = ToInt(id)

\* Three-valued SQL: a = b and a OR b over NULL, 0 and 1.
SqlEq(a, b) ==
    IF a = Null \/ b = Null THEN Null
    ELSE Def(IF a[1] = b[1] THEN 1 ELSE 0)
SqlTrue(a) == a # Null /\ a[1] # 0
SqlOr(a, b) ==
    IF SqlTrue(a) \/ SqlTrue(b) THEN Def(1)
    ELSE IF a = Null \/ b = Null THEN Null
    ELSE Def(0)

\* bind(true) stores 1, bind(false) stores 0.
BindBool(b) == IF b THEN 1 ELSE 0

\* ORDER BY on an integer column, ascending: NULL sorts first.
IntBefore(a, b) ==
    \/ a = Null /\ b # Null
    \/ a # Null /\ b # Null /\ a[1] < b[1]

\* The binary collation of the texts of the model.
Collate(t) ==
    CASE t = "Drone" -> 1
      [] t = "Robot" -> 2
      [] OTHER -> 3

\* ORDER BY on a text column, ascending: NULL sorts first.
TextBefore(a, b) ==
    \/ a = Null /\ b # Null
    \/ a # Null /\ b # Null /\ Collate(a[1]) < Collate(b[1])

\* ORDER BY project_count DESC, category_name ASC (rows that tie on both
\* come in key order).
CategoryBefore(r, q) ==
    \/ r.project_count > q.project_count
    \/ /\ r.project_count = q.project_count
       /\ \/ TextBefore(r.category_name, q.category_name)
          \/ /\ r.category_name = q.category_name
             /\ r.s_no < q.s_no

\* ORDER BY order_number ASC, s_no DESC
ProjectBefore(r, q) ==
    \/ IntBefore(r.order_number, q.order_number)
    \/ /\ r.order_number = q.order_number
       /\ r.s_no > q.s_no

\* SELECT * FROM categories ORDER BY project_count DESC, category_name ASC
RECURSIVE SelectCategories(_)
SelectCategories(cats) ==
    IF cats = {} THEN <<>>
    ELSE LET first == CHOOSE r \in cats :
                          \A q \in cats \ {r} : CategoryBefore(r, q)
         IN  <<first>> \o SelectCategories(cats \ {first})

\* INSERT INTO categories (category_name) VALUES (?)
InsertCategory(cats, name) ==
    cats \cup {[s_no |-> NextSno(cats), category_name |-> name,
                project_count |-> 0]}

\* The rows in the order ORDER BY order_number ASC, s_no DESC gives.
RECURSIVE OrderProjects(_)
OrderProjects(rows) ==
    IF rows = {} THEN <<>>
    ELSE LET first == CHOOSE r \in rows :
                          \A q \in rows \ {r} : ProjectBefore(r, q)
         IN  <<first>> \o OrderProjects(rows \ {first})

\* SELECT * FROM projects WHERE visibility = 1 OR ? ORDER BY ...
SelectProjects(projs, includeHidden) ==
    OrderProjects({r \in projs :
                      SqlTrue(SqlOr(SqlEq(r.visibility, Def(1)),
                                    Def(BindBool(includeHidden))))})

\* INSERT INTO projects (name, ..., visibility) VALUES (?, ..., ?)
InsertProject(projs, p) ==
    projs \cup {[s_no |-> NextSno(projs),
                 name |-> p.name,
                 long_description |-> p.long_description,
                 images |-> p.images,
                 github_link |-> p.github_link,
                 technologies |-> p.technologies,
                 category_name |-> p.category_name,
                 short_description |-> p.short_description,
                 circuit_diagram_link |-> p.circuit_diagram_link,
                 video_link |-> p.video_link,
                 order_number |-> p.order_number,
                 visibility |-> p.visibility]}

\* UpdateProject that also sets short_description and video_link.
UpdateProjectAllFields(projs, b, id) ==
    {IF SnoEquals(r, id)
     THEN [r EXCEPT !.name = b.name,
                    !.long_description = b.long_description,
                    !.images = b.images,
                    !.github_link = b.github_link,
                    !.technologies = b.technologies,
                    !.category_name = b.category_name,
                    !.short_description = b.short_description,
                    !.circuit_diagram_link = b.circuit_diagram_link,
                    !.video_link = b.video_link,
                    !.order_number = b.order_number,
                    !.visibility = b.visibility]
     ELSE r : r \in projs}

\* UPDATE projects SET name=?, long_description=?, images=?, github_link=?,
\* technologies=?, category_name=?, circuit_diagram_link=?, order_number=?,
\* visibility=? WHERE s_no = ?
UpdateProject(projs, b, id) ==
    {IF SnoEquals(r, id)
     THEN [r EXCEPT !.name = b.name,
                    !.long_description = b.long_description,
                    !.images = b.images,
                    !.github_link = b.github_link,
                    !.technologies = b.technologies,
                    !.category_name = b.category_name,
                    !.circuit_diagram_link = b.circuit_diagram_link,
                    !.order_number = b.order_number,
                    !.visibility = b.visibility]
     ELSE r : r \in projs}

\* UPDATE categories SET category_name = ? WHERE s_no = ?
UpdateCategory(cats, name, id) ==
    {IF SnoEquals(r, id) THEN [r EXCEPT !.category_name = name] ELSE r :
        r \in cats}

\* DeleteFrom that compares the key with the first digit of the id only.
DeleteFromFirstDigit(table, id) ==
    {r \in table : r.s_no # DigitValue(id[1])}

\* DELETE FROM <table> WHERE s_no = ?
DeleteFrom(table, id) == {r \in table : ~SnoEquals(r, id)}

\* The metadata run() resolves to.
RunMeta(changes) == [success |-> TRUE, changes |-> changes]

\* The number of rows WHERE s_no = ? selects.
Matching(table, id) == Cardinality({r \in table : SnoEquals(r, id)})

-----------------------------------------------------------------------------
(* The inputs a request is drawn from. *)

Methods == {"GET", "POST", "PUT", "DELETE", "OPTIONS"}

Paths == {CategoriesPath, ProjectsPath,
          ProjectsPath \o <<"/", "1">>,
          ProjectsPath \o <<"/", "0", "2">>,
          CategoriesPath \o <<"/", "1">>,
          ProjectsPath \o <<"/", "1", "x">>,
          WidgetsPath, HomePath}

\* request.headers.get('Authorization'): absent, the right token, the key
\* without its scheme.
AuthHeaders == {Undefined, Def("Bearer k1"), Def("k1")}

\* url.searchParams.get('includeHidden')
Params == {Undefined, Def("true"), Def("false"), Def("TRUE"), Def("1")}

\* env.ALLOWED_ORIGIN: not configured, set to the empty string, configured.
Origins == {Undefined, Def(""), Def("https://admin.example")}

SecretKey == "k1"

\* The JSON documents request.json() resolves to: two objects (a field the
\* object lacks reads undefined and binds NULL) and the document null.
BodyA == [null |-> FALSE,
          name |-> Def("Robot"), long_description |-> Def("arm"),
          images |-> Def("a.png"), github_link |-> Def("gh/a"),
          technologies |-> Def("ros"), category_name |-> Def("Robot"),
          short_description |-> Def("sa"), circuit_diagram_link |-> Def("cd/a"),
          video_link |-> Def("v/a"), order_number |-> Def(1),
          visibility |-> Def(1)]
BodyB == [null |-> FALSE,
          name |-> Def("Drone"), long_description |-> Def("quad"),
          images |-> Undefined, github_link |-> Def("gh/b"),
          technologies |-> Def("px4"), category_name |-> Def("Drone"),
          short_description |-> Undefined, circuit_diagram_link |-> Undefined,
          video_link |-> Def("v/b"), order_number |-> Undefined,
          visibility |-> Def(0)]
BodyNull == [null |-> TRUE]
Bodies == {BodyA, BodyB, BodyNull}

Pending == [kind |-> "pending"]
Responded(r) == [kind |-> "response", response |-> r]
Rejected(msg) == [kind |-> "rejected", message |-> msg]

NoRequest == [method |-> "", pathname |-> <<>>, authHeader |-> Undefined]

-----------------------------------------------------------------------------
(* The state machine. *)

Init ==
    /\ env \in [ALLOWED_ORIGIN : Origins, SECRET_KEY : {SecretKey}]
    /\ categories = {}
    /\ projects = {}
    /\ pc = "idle"
    /\ request = NoRequest
    /\ param = Undefined
    /\ body = Undefined
    /\ route = ""
    /\ stmts = 0
    /\ steps = <<>>
    /\ failure = Undefined
    /\ dbError = FALSE
    /\ result = Undefined
    /\ resp = Pending
    /\ before = [categories |-> {}, projects |-> {}]

\* The runtime calls fetch(request, env).
Receive ==
    /\ pc = "idle"
    /\ \E m \in Methods, p \in Paths, a \in AuthHeaders :
          request' = [method |-> m, pathname |-> p, authHeader |-> a]
    /\ before' = [categories |-> categories, projects |-> projects]
    /\ pc' = "fetch"
    /\ UNCHANGED <<env, categories, projects, param, body, route, stmts,
                   steps, failure, dbError, result, resp>>

\* if (request.method === 'OPTIONS') return handleOptions(request, env);
\* the call is outside the try block.
Preflight ==
    /\ pc = "fetch"
    /\ request.method = "OPTIONS"
    /\ LET o == handleOptions(Def(env))
       IN  resp' = IF o.thrown THEN Rejected(o.message) ELSE Responded(o.value)
    /\ pc' = "done"
    /\ UNCHANGED <<env, categories, projects, request, param, body, route,
                   stmts, steps, failure, dbError, result, before>>

\* `return f(...)` inside the try block: the response leaves fetch, or the
\* exception f throws goes to the catch clause.
ReturnFromTry(o) ==
    IF o.thrown
    THEN /\ pc' = "catch"
         /\ failure' = Def(o.message)
         /\ resp' = resp
    ELSE /\ pc' = "done"
         /\ failure' = failure
         /\ resp' = Responded(o.value)

\* An exception thrown inside the try block.
ThrowInTry(msg) ==
    /\ pc' = "catch"
    /\ failure' = Def(msg)
    /\ resp' = resp

\* The authentication middleware.
AuthGate ==
    /\ pc = "fetch"
    /\ request.method # "OPTIONS"
    /\ steps' = Append(steps, "auth")
    /\ IF request.method \in WriteMethods /\ AuthFails(request.authHeader, env)
       THEN ReturnFromTry(errorResponse("Unauthorized", 401, Undefined))
       ELSE pc' = "route" /\ UNCHANGED <<failure, resp>>
    /\ UNCHANGED <<env, categories, projects, request, param, body, route,
                   stmts, dbError, result, before>>

\* The main router: handleApiRequest up to its first await, or the 404 of fetch.
Router ==
    /\ pc = "route"
    /\ steps' = Append(steps, "route")
    /\ IF StartsWith(request.pathname, ApiPrefix)
       THEN LET r == Dispatch(request.method, request.pathname)
            IN  /\ route' = r
                /\ IF r = "notFound"
                   THEN ReturnFromTry(errorResponse("Route not found", 404, Undefined))
                   ELSE /\ pc' = IF r \in BodyRoutes THEN "json" ELSE "stmt"
                        /\ UNCHANGED <<failure, resp>>
       ELSE /\ route' = route
            /\ ReturnFromTry(errorResponse("Route not found", 404, Undefined))
    /\ UNCHANGED <<env, categories, projects, request, param, body, stmts,
                   dbError, result, before>>

\* await request.json() resolves to a document.
ParseBody ==
    /\ pc = "json"
    /\ \E b \in Bodies : body' = Def(b)
    /\ steps' = Append(steps, "json")
    /\ pc' = "stmt"
    /\ UNCHANGED <<env, categories, projects, request, param, route, stmts,
                   failure, dbError, result, resp, before>>

\* await request.json() rejects: the body is not JSON.
ParseFails ==
    /\ pc = "json"
    /\ steps' = Append(steps, "json")
    /\ ThrowInTry(SyntaxErrorMsg)
    /\ UNCHANGED <<env, categories, projects, request, param, body, route,
                   stmts, dbError, result, before>>

\* The body is the document null: destructuring it, or reading a field of it
\* for bind(), throws before any statement runs.
NullBody ==
    /\ pc = "stmt"
    /\ route \in BodyRoutes
    /\ body[1].null
    /\ ThrowInTry(NullBodyMsg)
    /\ UNCHANGED <<env, categories, projects, request, param, body, route,
                   stmts, steps, dbError, result, before>>

\* The statement of the route is at hand: its bound values are available.
AtStatement(r) ==
    /\ pc = "stmt"
    /\ route = r
    /\ r \in BodyRoutes => ~body[1].null

\* A statement ran: it is counted, and the handler goes on to its return.
Ran(res, o) ==
    /\ stmts' = stmts + 1
    /\ steps' = Append(steps, "stmt")
    /\ result' = Def(res)
    /\ ReturnFromTry(o)

\* GET /api/categories
GetCategories ==
    /\ AtStatement("getCategories")
    /\ LET results == SelectCategories(categories)
       IN  Ran(results, jsonResponse(results, 200, Undefined))
    /\ UNCHANGED <<env, categories, projects, request, param, body, route,
                   dbError, before>>

\* POST /api/categories
PostCategories ==
    /\ AtStatement("postCategories")
    /\ Cardinality(categories) < MaxCategories
    /\ categories' = InsertCategory(categories, body[1].name)
    /\ Ran(RunMeta(1), jsonResponse(RunMeta(1), 201, Undefined))
    /\ UNCHANGED <<env, projects, request, param, body, route, dbError, before>>

\* GET /api/projects
GetProjects ==
    /\ AtStatement("getProjects")
    /\ \E q \in Params :
          /\ param' = Def(q)
          /\ LET includeHidden == (q = Def("true"))
                 results == SelectProjects(projects, includeHidden)
             IN  Ran(results, jsonResponse(results, 200, Undefined))
    /\ UNCHANGED <<env, categories, projects, request, body, route, dbError,
                   before>>

\* POST /api/projects
PostProjects ==
    /\ AtStatement("postProjects")
    /\ Cardinality(projects) < MaxProjects
    /\ projects' = InsertProject(projects, body[1])
    /\ Ran(RunMeta(1), jsonResponse(RunMeta(1), 201, Undefined))
    /\ UNCHANGED <<env, categories, request, param, body, route, dbError,
                   before>>

\* PUT /api/projects/{id}
PutProjects ==
    /\ AtStatement("putProjects")
    /\ LET id == IdMatch(request.pathname)[1].id
           meta == RunMeta(Matching(projects, id))
       IN  /\ projects' = UpdateProject(projects, body[1], id)
           /\ Ran(meta, jsonResponse(meta, 200, Undefined))
    /\ UNCHANGED <<env, categories, request, param, body, route, dbError,
                   before>>

\* PUT /api/categories/{id}
PutCategories ==
    /\ AtStatement("putCategories")
    /\ LET id == IdMatch(request.pathname)[1].id
           meta == RunMeta(Matching(categories, id))
       IN  /\ categories' = UpdateCategory(categories, body[1].name, id)
           /\ Ran(meta, jsonResponse(meta, 200, Undefined))
    /\ UNCHANGED <<env, projects, request, param, body, route, dbError, before>>

\* DELETE /api/{projects|categories}/{id}: the table is the captured word.
DeleteRow ==
    /\ AtStatement("delete")
    /\ LET m == IdMatch(request.pathname)[1]
       IN  /\ projects' = IF m.resourceType = ProjectsWord
                          THEN DeleteFrom(projects, m.id) ELSE projects
           /\ categories' = IF m.resourceType = CategoriesWord
                            THEN DeleteFrom(categories, m.id) ELSE categories
           /\ Ran(RunMeta(Matching(IF m.resourceType = ProjectsWord
                                   THEN projects ELSE categories, m.id)),
                  NoContentResponse)
    /\ UNCHANGED <<env, request, param, body, route, dbError, before>>

\* The storage rejects the statement: run()/all() throws, nothing is written.
StorageFault ==
    /\ pc = "stmt"
    /\ route \in BodyRoutes => ~body[1].null
    /\ stmts' = stmts + 1
    /\ steps' = Append(steps, "stmt")
    /\ dbError' = TRUE
    /\ ThrowInTry(StorageErrorMsg)
    /\ UNCHANGED <<env, categories, projects, request, param, body, route,
                   result, before>>

\* catch (e) { return errorResponse(e.message, 500); }: an exception thrown
\* here leaves fetch.
Catch ==
    /\ pc = "catch"
    /\ LET o == errorResponse(failure[1], 500, Undefined)
       IN  resp' = IF o.thrown THEN Rejected(o.message) ELSE Responded(o.value)
    /\ pc' = "done"
    /\ UNCHANGED <<env, categories, projects, request, param, body, route,
                   stmts, steps, failure, dbError, result, before>>

\* The request is over; the worker keeps nothing of it.
Finish ==
    /\ pc = "done"
    /\ pc' = "idle"
    /\ request' = NoRequest
    /\ param' = Undefined
    /\ body' = Undefined
    /\ route' = ""
    /\ stmts' = 0
    /\ steps' = <<>>
    /\ failure' = Undefined
    /\ dbError' = FALSE
    /\ result' = Undefined
    /\ resp' = Pending
    /\ before' = [categories |-> categories, projects |-> projects]
    /\ UNCHANGED <<env, categories, projects>>

Next ==
    \/ Receive
    \/ Preflight
    \/ AuthGate
    \/ Router
    \/ ParseBody
    \/ ParseFails
    \/ NullBody
    \/ GetCategories
    \/ PostCategories
    \/ GetProjects
    \/ PostProjects
    \/ PutProjects
    \/ PutCategories
    \/ DeleteRow
    \/ StorageFault
    \/ Catch
    \/ Finish

Spec == Init /\ [][Next]_vars

-----------------------------------------------------------------------------
(* What the claims speak of, stated apart from the handler's own tests. *)

Done == pc = "done"
InFlight == pc # "idle"
IsWrite == request.method \in {"POST", "PUT", "DELETE"}
ValidToken == request.authHeader = Def("Bearer " \o env.SECRET_KEY)
PassesGate == IsWrite => ValidToken

Project1Path == ProjectsPath \o <<"/", "1">>
Project2Path == ProjectsPath \o <<"/", "0", "2">>
Category1Path == CategoriesPath \o <<"/", "1">>
IdPaths == {Project1Path, Project2Path, Category1Path}

\* The id and the table a path of IdPaths addresses.
AddressedId ==
    IF request.pathname = Project2Path THEN 2 ELSE 1
AddressesProjects == request.pathname \in {Project1Path, Project2Path}

\* The routing table of the specification: the seven storage-backed routes.
InRoutingTable ==
    \/ request.method \in {"GET", "POST"}
       /\ request.pathname \in {CategoriesPath, ProjectsPath}
    \/ request.method \in {"PUT", "DELETE"} /\ request.pathname \in IdPaths

StorageUntouched ==
    /\ categories = before.categories
    /\ projects = before.projects

ReturnedWith(status, b) ==
    /\ resp.kind = "response"
    /\ resp.response.status = status
    /\ resp.response.body = b

\* The origin the deployment configures; an ALLOWED_ORIGIN that is absent or
\* the empty string configures none.
ConfiguredOrigin ==
    IF env.ALLOWED_ORIGIN \in {Undefined, Def("")} THEN "*"
    ELSE env.ALLOWED_ORIGIN[1]

-----------------------------------------------------------------------------
\* C1: a POST, PUT or DELETE request without the exact header
\* 'Bearer <SECRET_KEY>' is answered 401 with body {"error":"Unauthorized"}.
C1_UnauthorizedIs401 ==
    (Done /\ IsWrite /\ ~ValidToken)
        => ReturnedWith(401, Def(JSONstringify([error |-> "Unauthorized"])))

\* C2: every response fetch returns carries Access-Control-Allow-Origin with
\* env.ALLOWED_ORIGIN when configured and '*' otherwise.
C2_EveryResponseHasAllowOrigin ==
    (Done /\ resp.kind = "response")
        => /\ AllowOrigin \in DOMAIN resp.response.headers
           /\ resp.response.headers[AllowOrigin] = ConfiguredOrigin

\* C3: an OPTIONS request, whatever its path and Authorization header, runs
\* no storage statement, no auth check and no routing, and is answered with
\* an empty body and the three CORS headers.
C3_PreflightShortCircuits ==
    (InFlight /\ request.method = "OPTIONS")
        => /\ stmts = 0
           /\ steps = <<>>
           /\ body = Undefined
           /\ StorageUntouched
           /\ Done =>
                /\ resp.kind = "response"
                /\ resp.response.body = Undefined
                /\ DOMAIN resp.response.headers
                      = {AllowOrigin, AllowMethods, AllowHeaders}
                /\ resp.response.headers[AllowOrigin] = ConfiguredOrigin
                /\ resp.response.headers[AllowMethods]
                      = "GET, POST, PUT, DELETE, OPTIONS"
                /\ resp.response.headers[AllowHeaders]
                      = "Content-Type, Authorization"

C3_Witness ==
    /\ Done
    /\ request.method = "OPTIONS"
    /\ request.pathname = Project1Path
    /\ request.authHeader = Undefined
    /\ projects # {}
    /\ resp.kind = "response"

\* C4: a failure raised while a non-OPTIONS request is processed ends in a
\* 500 response whose body is {"error": <the failure's message>}; no failure
\* leaves the handler unconverted.
C4_FailureBecomes500 ==
    (Done /\ failure # Undefined)
        => ReturnedWith(500, Def(JSONstringify([error |-> failure[1]])))

\* C5: a non-OPTIONS request that passes the auth gate and matches no route
\* is answered 404 with body {"error":"Route not found"} and runs no
\* storage statement.
C5_UnmatchedIs404 ==
    (Done /\ request.method # "OPTIONS" /\ PassesGate /\ ~InRoutingTable)
        => /\ ReturnedWith(404, Def(JSONstringify([error |-> "Route not found"])))
           /\ stmts = 0

\* C6: a DELETE with a valid token on /api/projects/{id} or
\* /api/categories/{id}, once the storage has run its statement, is answered
\* 204 with an empty body whether or not a row with s_no = id exists; the
\* table named in the path loses that row and nothing else, the other table
\* is unchanged.
C6_DeleteIs204 ==
    (Done /\ request.method = "DELETE" /\ ValidToken
          /\ request.pathname \in IdPaths /\ ~dbError)
        => /\ ReturnedWith(204, Undefined)
           /\ IF AddressesProjects
              THEN /\ projects
                        = {r \in before.projects : r.s_no # AddressedId}
                   /\ categories = before.categories
              ELSE /\ categories
                        = {r \in before.categories : r.s_no # AddressedId}
                   /\ projects = before.projects

\* A DELETE of an id no row has, on a table that is not empty.
C6_Witness ==
    /\ Done
    /\ request.method = "DELETE"
    /\ ValidToken
    /\ request.pathname = Project2Path
    /\ ~dbError
    /\ before.projects # {}
    /\ \A r \in before.projects : r.s_no # 2
    /\ projects = before.projects
    /\ resp.kind = "response"

\* C7: a POST, PUT or DELETE request without a valid token never reaches
\* routing, never has its body parsed and never runs a storage statement:
\* the stored categories and projects stay what they were.
C7_GateBeforeStorage ==
    (InFlight /\ IsWrite /\ ~ValidToken)
        => /\ stmts = 0
           /\ body = Undefined
           /\ \A i \in 1..Len(steps) : steps[i] = "auth"
           /\ StorageUntouched

C7_Witness ==
    /\ Done
    /\ request.method = "DELETE"
    /\ request.pathname = Project1Path
    /\ request.authHeader = Def("k1")
    /\ \E r \in projects : r.s_no = 1

\* C8: one invocation of fetch runs 0 or 1 storage statement, and 1 only
\* when the request matched one of the seven storage-backed routes.
C8_AtMostOneStatement ==
    /\ stmts \in {0, 1}
    /\ stmts = 1 => (InRoutingTable /\ PassesGate)

C8_Witness ==
    /\ Done
    /\ stmts = 1
    /\ request.method = "PUT"
    /\ request.pathname = Category1Path

\* The rows GET /api/projects is to return for a raw includeHidden value.
ExpectedProjects(q) ==
    IF q = Def("true") THEN projects
    ELSE {r \in projects : r.visibility = Def(1)}

\* A sequence of project rows is in order_number ascending (NULL first),
\* then s_no descending, order.
InProjectOrder(rows) ==
    \A i, j \in 1..Len(rows) :
        i < j =>
            \/ rows[i].order_number = Null /\ rows[j].order_number # Null
            \/ /\ rows[i].order_number # Null
               /\ rows[j].order_number # Null
               /\ rows[i].order_number[1] < rows[j].order_number[1]
            \/ /\ rows[i].order_number = rows[j].order_number
               /\ rows[i].s_no > rows[j].s_no

\* C9: GET /api/projects returns all rows when includeHidden is exactly
\* 'true' and only the rows with visibility = 1 otherwise, ordered by
\* order_number ascending, then s_no descending.
C9_ListProjects ==
    (Done /\ request.method = "GET" /\ request.pathname = ProjectsPath
          /\ ~dbError)
        => /\ resp.kind = "response"
           /\ resp.response.status = 200
           /\ resp.response.body # Undefined
           /\ LET rows == resp.response.body[1].json
              IN  /\ {rows[i] : i \in 1..Len(rows)} = ExpectedProjects(param[1])
                  /\ Len(rows) = Cardinality(ExpectedProjects(param[1]))
                  /\ InProjectOrder(rows)

\* C10: a PUT /api/projects/{id} with a valid token changes only the project
\* row whose s_no is id: the other project rows and every category row are
\* unchanged; the addressed row keeps s_no, short_description and
\* video_link, and its other nine fields take the body's values once the
\* statement has run.
C10_PutProjectFrame ==
    (InFlight /\ request.method = "PUT" /\ ValidToken /\ AddressesProjects)
        => /\ categories = before.categories
           /\ {r.s_no : r \in projects} = {r.s_no : r \in before.projects}
           /\ \A r \in projects :
                 IF r.s_no # AddressedId
                 THEN r \in before.projects
                 ELSE /\ \E old \in before.projects :
                            /\ old.s_no = r.s_no
                            /\ old.short_description = r.short_description
                            /\ old.video_link = r.video_link
                            /\ stmts = 0 => old = r
                      /\ (stmts = 1 /\ ~dbError) =>
                            \A f \in BodyFields \ {"short_description",
                                                   "video_link"} :
                                r[f] = body[1][f]

\* A PUT that rewrote one of two rows with a body whose short_description
\* and video_link differ from the row's.
C10_Witness ==
    /\ Done
    /\ request.method = "PUT"
    /\ ValidToken
    /\ request.pathname = Project1Path
    /\ stmts = 1
    /\ ~dbError
    /\ Cardinality(projects) = 2
    /\ projects # before.projects
    /\ \E r \in projects :
          /\ r.s_no = 1
          /\ r.short_description # body[1].short_description
          /\ r.video_link # body[1].video_link

====
